---------------------------- MODULE Spec2Model ----------------------------
(***************************************************************************)
(* A model of the QM9 GraphVAE data pipeline (data_utils.py) and of the    *)
(* training / evaluation control logic (train_graph_vae.py).               *)
(*                                                                         *)
(* Five specifications share the module's variables:                       *)
(*   SpecEval   the generation loop and the metrics of evaluate_model      *)
(*   SpecData   the dataset transforms, applied in the order of            *)
(*              create_qm9_dataset, followed by RandomPermutation          *)
(*   SpecTrain  the epoch / batch / validation loop of train_model         *)
(*   SpecMain   main, run again and again on the same working directory,   *)
(*              with the train_model it calls                              *)
(*   SpecSelect SelectQM9TargetProperties                                  *)
(* Each specification holds the variables of the others at an idle value.  *)
(***************************************************************************)
EXTENDS Integers, Sequences, FiniteSets

(***************************************************************************)
(* Bounds of the model.                                                    *)
(***************************************************************************)
\* num_samples is 1000 in evaluate_model (line 308); the model draws fewer.
num_samples == 3
\* hparams["max_decode_attempts"] (default 10) is drawn from
\* 1..MaxDecodeAttempts.
MaxDecodeAttempts == 2
\* The canonical SMILES strings a decoded molecule can have are 1..NumSmiles.
NumSmiles == 2
\* max_num_nodes is 9 (29 with hydrogen) in create_qm9_dataset (line 38); the
\* model packs graphs into fewer slots.
max_num_nodes == 3
\* The graphs drawn have at most MaxBonds bonds.
MaxBonds == 2
\* len(train_loader) is drawn from 1..MaxTrainBatches, len(val_loader) from
\* 1..MaxValBatches, epochs from 1..MaxEpochs and start_epoch from
\* 0..MaxStartEpoch.
MaxTrainBatches == 50
MaxValBatches == 2
MaxEpochs == 4
MaxStartEpoch == 2
\* Under SpecMain, main is run at most MaxRuns times with args.epochs drawn
\* from 0..MaxMainEpochs, on a train_loader of 1..MaxMainBatches batches.
MaxRuns == 3
MaxMainEpochs == 2
MaxMainBatches == 3
\* --properties names at most MaxProperties properties.
MaxProperties == 2

VARIABLES
    \* ---- evaluate_model ----
    eval_pc,                \* "idle" | "generate" | "done" | "ZeroDivisionError"
    stochastic_decoding,    \* hparams["stochastic_decoding"]
    hp_max_decode_attempts, \* hparams["max_decode_attempts"]
    train_mol_smiles,       \* canonical SMILES of the training set
    sample_index,           \* i of the loop over range(num_samples)
    attempt,                \* attempts the inner loop has made for sample i
    total_decode_attempts,
    num_connected_graphs,
    num_valid_mols,
    generated_mol_smiles,
    tb_hparams,             \* what tb_writer.add_hparams received: {} or {metrics}
    sample_log,             \* history: per sample, what its attempts did
    \* ---- the dataset transforms ----
    data_pc,                \* "idle" | "raw" | "dropped" | "adj" | "node" | "cached" | "batch"
    include_hydrogen,       \* args.include_hydrogen
    raw,                    \* history: the graph as the first transform received it
    data,                   \* the Data object the pre_transforms work on
    perm,                   \* permutations[0] of the last RandomPermutation.forward
    batch,                  \* what the last RandomPermutation.forward returned
    \* ---- train_model ----
    train_pc,               \* "idle" | "epoch" | "batch" | "validate" | "done" | "ZeroDivisionError"
    kl_schedule,            \* hparams["kl_schedule"]
    len_train_loader,       \* len(train_loader)
    len_val_loader,         \* len(val_loader)
    epochs,
    start_epoch,
    epoch,
    batch_index,
    iteration,
    kl_weight,              \* the ramp position <<num, den>> the schedule gave
    training,               \* graph_vae_model.training: TRUE after train(), FALSE after eval()
    grad_enabled,           \* FALSE inside `with torch.no_grad()`
    model_version,          \* number of updates the model parameters have had
    optimizer_steps,        \* number of optimizer.step() calls (the optimizer state)
    mu_sigma,               \* the locals mu, sigma: who assigned them last
    val_loader_position,    \* position of val_loader_iterator in its cycle
    val_batches_done,       \* batches the validation for loop has evaluated
    checkpoint,             \* the record torch.save wrote last
    kl_divergence_from,     \* history: whose mu, sigma the last training loss used
    validation_log,         \* history: one entry per validation pass
    saves,                  \* history: torch.save calls of this train_model call
    \* ---- main ----
    main_pc,                \* "idle" | "parsed" | "dataset" | "model" | "loaded" | "writer"
                            \* | "train_model" | "evaluate_model" | "ValueError"
    args_epochs,            \* args.epochs
    args_checkpoint,        \* args.checkpoint: "None" or the path of the last checkpoint
    data_loaders,           \* TRUE once the dataset and its loaders are built
    graph_vae_model,        \* TRUE once the model is constructed
    optimizer,              \* TRUE once the optimizer is constructed
    tb_writer,              \* TRUE once the log directory and its writer exist
    out_checkpoint_path,    \* "unset" | "train_model" | "args.checkpoint"
    runs,                   \* how many times main has been started
    \* ---- SelectQM9TargetProperties ----
    select_pc,              \* "idle" | "new" | "built" | "KeyError" | "selected" | "refreshed"
    properties,             \* the names requested
    indices,                \* self.indices
    y_raw,                  \* history: the 19 targets of the raw record
    y,                      \* data.y of the record
    y_refreshed             \* data.y of the record after the cache was rebuilt

evalVars == <<eval_pc, stochastic_decoding, hp_max_decode_attempts,
              train_mol_smiles, sample_index, attempt, total_decode_attempts,
              num_connected_graphs, num_valid_mols, generated_mol_smiles,
              tb_hparams, sample_log>>

dataVars == <<data_pc, include_hydrogen, raw, data, perm, batch>>

trainVars == <<train_pc, kl_schedule, len_train_loader, len_val_loader, epochs,
               start_epoch, epoch, batch_index, iteration, kl_weight, training,
               grad_enabled, model_version, optimizer_steps, mu_sigma,
               val_loader_position, val_batches_done, checkpoint,
               kl_divergence_from, validation_log, saves>>

mainVars == <<main_pc, args_epochs, args_checkpoint, data_loaders,
              graph_vae_model, optimizer, tb_writer, out_checkpoint_path,
              runs>>

selectVars == <<select_pc, properties, indices, y_raw, y, y_refreshed>>

vars == <<evalVars, dataVars, trainVars, mainVars, selectVars>>

Min(a, b) == IF a <= b THEN a ELSE b

(***************************************************************************)
(* evaluate_model: the decoding quality metrics                            *)
(***************************************************************************)
Smiles == 1..NumSmiles

\* The SMILES strings are interchangeable labels here, so the training set
\* is drawn among the sets 1..k: every pair of a generated set and a
\* training set is such a pair up to renaming.
\* What one call of output_to_graph yields, as far as the loop looks at it:
\* whether the graph is connected, whether graph_to_mol(validate=True) would
\* sanitize it (a disconnected graph can be chemically valid), and the
\* canonical SMILES of the molecule.
Candidates == [connected : BOOLEAN, sanitizes : BOOLEAN, smiles : Smiles]

\* The history entry of a sample: attempts made, position of its first
\* connected-and-valid attempt (0: none yet), molecules counted valid, SMILES
\* it added to generated_mol_smiles.
NoLog == [attempts |-> 0, first_ok |-> 0, valid |-> 0, added |-> {}]

\* lines 312-316
max_decode_attempts ==
    IF stochastic_decoding THEN hp_max_decode_attempts ELSE 1

\* line 330: nx.is_connected; a disconnected graph takes the `continue`.
\* (Faulty variant: the connectivity check is skipped.)
ReachesValidation_SkipConnectivity(c) == TRUE
ReachesValidation(c) == c.connected

\* lines 336-340: graph_to_mol raises on a molecule that does not sanitize.
\* Only a candidate that reached the validation can pass it.
IsValidMol(c) == ReachesValidation(c) /\ c.sanitizes

\* line 348: the break after a valid molecule.
\* (Faulty variant: the break is missing.)
BreaksLoop_NoBreak(c) == FALSE
BreaksLoop(c) == IsValidMol(c)

EvalInit ==
    /\ eval_pc = "generate"
    /\ stochastic_decoding \in BOOLEAN
    /\ hp_max_decode_attempts \in 1..MaxDecodeAttempts
    /\ train_mol_smiles \in {1..k : k \in 0..NumSmiles}
    /\ sample_index = 0
    /\ attempt = 0
    /\ total_decode_attempts = 0
    /\ num_connected_graphs = 0
    /\ num_valid_mols = 0
    /\ generated_mol_smiles = {}
    /\ tb_hparams = {}
    /\ sample_log = [j \in 0..(num_samples - 1) |-> NoLog]

EvalIdle ==
    /\ eval_pc = "idle"
    /\ stochastic_decoding = FALSE
    /\ hp_max_decode_attempts = 1
    /\ train_mol_smiles = {}
    /\ sample_index = 0
    /\ attempt = 0
    /\ total_decode_attempts = 0
    /\ num_connected_graphs = 0
    /\ num_valid_mols = 0
    /\ generated_mol_smiles = {}
    /\ tb_hparams = {}
    /\ sample_log = <<>>

\* One pass through the body of `for _ in range(max_decode_attempts)`,
\* lines 325-348, for the candidate c that output_to_graph returned.
DecodeAttempt(c) ==
    /\ eval_pc = "generate"
    /\ sample_index < num_samples
    /\ attempt < max_decode_attempts
    /\ total_decode_attempts' = total_decode_attempts + 1
    /\ num_connected_graphs' =
           IF c.connected THEN num_connected_graphs + 1 ELSE num_connected_graphs
    /\ num_valid_mols' =
           IF IsValidMol(c) THEN num_valid_mols + 1 ELSE num_valid_mols
    /\ generated_mol_smiles' =
           IF IsValidMol(c) THEN generated_mol_smiles \cup {c.smiles}
                            ELSE generated_mol_smiles
    /\ sample_log' = [sample_log EXCEPT ![sample_index] =
           [attempts  |-> @.attempts + 1,
            first_ok  |-> IF @.first_ok = 0 /\ c.connected /\ c.sanitizes
                          THEN attempt + 1 ELSE @.first_ok,
            valid     |-> @.valid + (IF IsValidMol(c) THEN 1 ELSE 0),
            added     |-> IF IsValidMol(c)
                          THEN @.added \cup ({c.smiles} \ generated_mol_smiles)
                          ELSE @.added]]
    /\ IF BreaksLoop(c)
       THEN sample_index' = sample_index + 1 /\ attempt' = 0
       ELSE sample_index' = sample_index /\ attempt' = attempt + 1
    /\ UNCHANGED <<dataVars, trainVars, mainVars, selectVars>>
    /\ UNCHANGED <<eval_pc, stochastic_decoding, hp_max_decode_attempts,
                   train_mol_smiles, tb_hparams>>

\* range(max_decode_attempts) is exhausted without a break: the outer loop
\* goes on to the next sample (line 321).
AttemptsExhausted ==
    /\ eval_pc = "generate"
    /\ sample_index < num_samples
    /\ attempt >= max_decode_attempts
    /\ sample_index' = sample_index + 1
    /\ attempt' = 0
    /\ UNCHANGED <<dataVars, trainVars, mainVars, selectVars>>
    /\ UNCHANGED <<eval_pc, stochastic_decoding, hp_max_decode_attempts,
                   train_mol_smiles, total_decode_attempts,
                   num_connected_graphs, num_valid_mols, generated_mol_smiles,
                   tb_hparams, sample_log>>

\* lines 351-352
novel_mol_count ==
    Cardinality(generated_mol_smiles)
        - Cardinality(train_mol_smiles \cap generated_mol_smiles)

\* lines 354-360.  A rate is kept as <<numerator, denominator>>.  Python
\* evaluates the dict display entry by entry; a zero denominator raises
\* ZeroDivisionError.
MetricsRaise ==
    \/ total_decode_attempts = 0
    \/ num_valid_mols = 0
    \/ Cardinality(generated_mol_smiles) = 0

DecodeMetrics ==
    [MeanDecodeAttempts |-> <<total_decode_attempts, num_samples>>,
     Connectedness      |-> <<num_connected_graphs, total_decode_attempts>>,
     Validity           |-> <<num_valid_mols, total_decode_attempts>>,
     Uniqueness         |-> <<Cardinality(generated_mol_smiles), num_valid_mols>>,
     Novelty            |-> <<novel_mol_count, Cardinality(generated_mol_smiles)>>]

\* lines 351-362, after the loop over the samples has ended.
ComputeMetrics ==
    /\ eval_pc = "generate"
    /\ sample_index = num_samples
    /\ \/ /\ MetricsRaise
          /\ eval_pc' = "ZeroDivisionError"
          /\ tb_hparams' = tb_hparams
       \/ /\ ~MetricsRaise
          /\ eval_pc' = "done"
          /\ tb_hparams' = {DecodeMetrics}
    /\ UNCHANGED <<dataVars, trainVars, mainVars, selectVars>>
    /\ UNCHANGED <<stochastic_decoding, hp_max_decode_attempts,
                   train_mol_smiles, sample_index, attempt,
                   total_decode_attempts, num_connected_graphs, num_valid_mols,
                   generated_mol_smiles, sample_log>>

(***************************************************************************)
(* data_utils.py: the dataset transforms                                   *)
(*                                                                         *)
(* Node indices are 0-based as in the source; a matrix is a function on    *)
(* Slots \X Slots written M[i][j]; a tensor that the source indexes by     *)
(* position (x, edge_index, edge_attr, the packed triangles, node_mat) is  *)
(* a sequence.  The leading batch dimension of size 1 that the transforms  *)
(* add (to_dense_adj, unsqueeze(0)) is left out: RandomPermutation treats  *)
(* every batch element on its own (lines 187-192).                         *)
(***************************************************************************)
\* "atom_type": list(range(5)), the one-hot columns H, C, N, O, F.
NumAtomTypes == 5
\* The width of an edge_attr row: single, double, triple, aromatic.
NumEdgeFeatures == 4

\* The graphs drawn: one to three atoms of the classes H, C, O, bonds of the
\* types single, double.
NodeCounts == {n \in 1..3 : n <= max_num_nodes}
AtomClasses == {0, 1, 3}
BondTypes == {0, 1}

Slots == 0..(max_num_nodes - 1)

OneHot(c, width) == [k \in 1..width |-> IF k = c + 1 THEN 1 ELSE 0]

\* The elements of a finite set of integers in increasing order.
RECURSIVE SortedSeq(_)
SortedSeq(S) ==
    IF S = {} THEN <<>>
    ELSE LET m == CHOOSE a \in S : \A b \in S : a <= b
         IN <<m>> \o SortedSeq(S \ {m})

\* The subsequence of s at the positions Keep accepts (boolean-mask indexing).
SelectIdx(s, Keep(_)) ==
    LET idx == SortedSeq({k \in 1..Len(s) : Keep(k)})
    IN [r \in 1..Len(idx) |-> s[idx[r]]]

\* A raw QM9 record after SelectQM9NodeFeatures(["atom_type"]): one-hot atom
\* rows; every bond is listed in both directions and edge_index is sorted
\* by (source, target), one edge_attr row per entry.
BondPairs(n) == {p \in (0..(n - 1)) \X (0..(n - 1)) : p[1] < p[2]}

Graph(classes, bonds) ==
    LET n == Len(classes)
        entries == {p \in (0..(n - 1)) \X (0..(n - 1)) :
                       <<p[1], p[2]>> \in DOMAIN bonds \/ <<p[2], p[1]>> \in DOMAIN bonds}
        order == SortedSeq({p[1] * n + p[2] : p \in entries})
        TypeOf(p) == IF p \in DOMAIN bonds THEN bonds[p] ELSE bonds[<<p[2], p[1]>>]
        At(k) == <<order[k] \div n, order[k] % n>>
    IN [x          |-> [i \in 1..n |-> OneHot(classes[i], NumAtomTypes)],
        edge_index |-> [k \in 1..Len(order) |-> At(k)],
        edge_attr  |-> [k \in 1..Len(order) |-> OneHot(TypeOf(At(k)), NumEdgeFeatures)]]

Graphs ==
    UNION {{Graph(classes, bonds) :
               classes \in [1..n -> AtomClasses],
               bonds \in UNION {[B -> BondTypes] :
                                   B \in {C \in SUBSET BondPairs(n) :
                                             Cardinality(C) <= MaxBonds}}} :
           n \in NodeCounts}

NoTensor == <<>>
NoData == [x |-> <<>>, edge_index |-> <<>>, edge_attr |-> <<>>,
           adj_triu_mat |-> NoTensor, node_mat |-> NoTensor,
           edge_triu_mat |-> NoTensor]
NoBatch == [adj_triu_mat |-> NoTensor, node_mat |-> NoTensor,
            edge_triu_mat |-> NoTensor]

\* torch.argmax of a row: the first position (0-based) of its maximum.
argmax(row) ==
    (CHOOSE k \in 1..Len(row) :
        /\ \A l \in 1..Len(row) : row[l] <= row[k]
        /\ \A l \in 1..(k - 1) : row[l] < row[k]) - 1

\* ---- DropQM9Hydrogen.forward, lines 63-84 ----
\* line 67
nodes_to_remove(d) == {i \in 0..(Len(d.x) - 1) : argmax(d.x[i + 1]) = 0}

\* line 76: isin(..., invert=True).all(dim=0) over the two endpoints.
\* (Faulty variant: any(dim=0) in place of all(dim=0).)
edge_mask_AnyEndpoint(d, e) ==
    \/ d.edge_index[e][1] \notin nodes_to_remove(d)
    \/ d.edge_index[e][2] \notin nodes_to_remove(d)
edge_mask(d, e) ==
    /\ d.edge_index[e][1] \notin nodes_to_remove(d)
    /\ d.edge_index[e][2] \notin nodes_to_remove(d)

\* line 81: cumsum(mask, 0) - 1
\* (Faulty variant: the - 1 is missing.)
index_mapping_NoOffset(d, i) ==
    Cardinality({j \in 0..i : j \notin nodes_to_remove(d)})
index_mapping(d, i) ==
    Cardinality({j \in 0..i : j \notin nodes_to_remove(d)}) - 1

DropQM9HydrogenForward(d) ==
    LET KeepNode(k) == (k - 1) \notin nodes_to_remove(d)
        KeepEdge(e) == edge_mask(d, e)
        kept_x == SelectIdx(d.x, KeepNode)
        kept_index == SelectIdx(d.edge_index, KeepEdge)
    IN [d EXCEPT
          !.x = [k \in 1..Len(kept_x) |-> Tail(kept_x[k])],
          !.edge_index = [k \in 1..Len(kept_index) |->
                             <<index_mapping(d, kept_index[k][1]),
                               index_mapping(d, kept_index[k][2])>>],
          !.edge_attr = SelectIdx(d.edge_attr, KeepEdge)]

\* ---- torch_geometric.utils.add_self_loops, called at line 103 without
\* num_nodes: the node count is taken from the edge list, max index + 1, and
\* is 0 for an empty edge list; one (i, i) entry per such node is appended.
\* (Variant with num_nodes=max_num_nodes: a loop on every slot.)
add_self_loops_AllSlots(edge_index) ==
    edge_index \o [k \in 1..max_num_nodes |-> <<k - 1, k - 1>>]
add_self_loops(edge_index) ==
    LET ends == {edge_index[e][1] : e \in 1..Len(edge_index)}
                   \cup {edge_index[e][2] : e \in 1..Len(edge_index)}
        N == IF ends = {} THEN 0
             ELSE (CHOOSE a \in ends : \A b \in ends : b <= a) + 1
    IN edge_index \o [k \in 1..N |-> <<k - 1, k - 1>>]

\* ---- torch_geometric.utils.to_dense_adj with max_num_nodes, lines 104 and
\* 144: entry [i][j] is the sum of the values of the edge entries (i, j);
\* without edge_attr every entry counts 1.  (No drawn graph has a node index
\* >= max_num_nodes, which to_dense_adj would drop.)
RECURSIVE SumSeq(_, _, _)
SumSeq(s, Add(_, _), zero) ==
    IF s = <<>> THEN zero ELSE Add(s[1], SumSeq(Tail(s), Add, zero))

ZeroVec == [k \in 1..NumEdgeFeatures |-> 0]
AddVec(a, b) == [k \in 1..NumEdgeFeatures |-> a[k] + b[k]]

to_dense_adj(edge_index) ==
    [i \in Slots |-> [j \in Slots |->
        Cardinality({e \in 1..Len(edge_index) : edge_index[e] = <<i, j>>})]]

to_dense_edge_attr(edge_index, edge_attr) ==
    [i \in Slots |-> [j \in Slots |->
        LET At(e) == edge_index[e] = <<i, j>>
        IN SumSeq(SelectIdx(edge_attr, At), AddVec, ZeroVec)]]

\* ---- the triu masks, lines 97, 138, 156, 157: torch.ones(n, n).triu(diagonal)
\* == 1.  Boolean-mask indexing visits the mask row by row, so the mask is
\* kept as the row-major sequence of its TRUE positions.
triu_mask(diagonal) ==
    LET all == [k \in 1..(max_num_nodes * max_num_nodes) |->
                   <<(k - 1) \div max_num_nodes, (k - 1) % max_num_nodes>>]
        InTriangle(p) == p[2] - p[1] >= diagonal
    IN SelectSeq(all, InTriangle)

\* mat[:, mask]
MaskedSelect(mat, mask) == [k \in 1..Len(mask) |-> mat[mask[k][1]][mask[k][2]]]

\* zeros(n, n); mat[:, mask] = packed
MaskedScatter(packed, mask, zero) ==
    [i \in Slots |-> [j \in Slots |->
        IF \E k \in 1..Len(mask) : mask[k] = <<i, j>>
        THEN packed[CHOOSE k \in 1..Len(mask) : mask[k] = <<i, j>>]
        ELSE zero]]

\* ---- AddAdjacencyMatrix.forward, lines 99-106 ----
AddAdjacencyMatrixForward(d) ==
    [d EXCEPT !.adj_triu_mat =
        MaskedSelect(to_dense_adj(add_self_loops(d.edge_index)), triu_mask(0))]

\* ---- AddNodeAttributeMatrix.forward, lines 115-127 ----
AddNodeAttributeMatrixForward(d) ==
    LET num_nodes_to_pad == max_num_nodes - Len(d.x)
        \* data.x.shape[1]; DropQM9Hydrogen has removed the first column.
        width == IF Len(d.x) > 0 THEN Len(d.x[1])
                 ELSE IF include_hydrogen THEN NumAtomTypes ELSE NumAtomTypes - 1
        padding_value == OneHot(0, width)
    IN [d EXCEPT !.node_mat = d.x \o [k \in 1..num_nodes_to_pad |-> padding_value]]

\* ---- AddEdgeAttributeMatrix.forward, lines 140-146 ----
AddEdgeAttributeMatrixForward(d) ==
    [d EXCEPT !.edge_triu_mat =
        MaskedSelect(to_dense_edge_attr(d.edge_index, d.edge_attr), triu_mask(1))]

\* ---- RandomPermutation.forward, lines 159-198 ----
\* line 182: diagonal.mul_(0.5).  The diagonal of a matrix plus its
\* transpose is twice an integer, so the product is that integer.
\* (Faulty variant: the diagonal is left doubled.)
HalveDiagonal_Forgotten(v) == v
HalveDiagonal(v) == v \div 2

\* lines 174-176
UnpackEdgeMat(edge_triu_mat) ==
    LET scattered == MaskedScatter(edge_triu_mat, triu_mask(1), ZeroVec)
    IN [i \in Slots |-> [j \in Slots |-> AddVec(scattered[i][j], scattered[j][i])]]

\* lines 179-182
UnpackAdjMat(adj_triu_mat) ==
    LET scattered == MaskedScatter(adj_triu_mat, triu_mask(0), 0)
    IN [i \in Slots |-> [j \in Slots |->
           IF i = j THEN HalveDiagonal(scattered[i][j] + scattered[j][i])
                    ELSE scattered[i][j] + scattered[j][i]]]

\* lines 190, 192: mat[perm][:, perm]
\* (Faulty variant: mat[perm], the columns left in place.)
PermuteRowsAndColumns_RowsOnly(mat, p) == [i \in Slots |-> [j \in Slots |-> mat[p[i]][j]]]
PermuteRowsAndColumns(mat, p) == [i \in Slots |-> [j \in Slots |-> mat[p[i]][p[j]]]]

\* line 191: node_mat[perm]
PermuteRows(node_mat, p) == [k \in 1..Len(node_mat) |-> node_mat[p[k - 1] + 1]]

\* line 171: rand(n).argsort() is any permutation of 0..n-1.
AllPermutations == {p \in [Slots -> Slots] : \A i, j \in Slots : p[i] = p[j] => i = j}

RandomPermutationForward(d, p) ==
    [adj_triu_mat  |-> MaskedSelect(PermuteRowsAndColumns(UnpackAdjMat(d.adj_triu_mat), p),
                                    triu_mask(0)),
     node_mat      |-> PermuteRows(d.node_mat, p),
     edge_triu_mat |-> MaskedSelect(PermuteRowsAndColumns(UnpackEdgeMat(d.edge_triu_mat), p),
                                    triu_mask(1))]

\* ---- the pipeline of create_qm9_dataset, train_graph_vae.py lines 30-62 ----
DataInit ==
    /\ data_pc = "raw"
    /\ include_hydrogen \in BOOLEAN
    /\ raw \in Graphs
    /\ data = [NoData EXCEPT !.x = raw.x, !.edge_index = raw.edge_index,
                             !.edge_attr = raw.edge_attr]
    /\ perm = <<>>
    /\ batch = NoBatch

DataIdle ==
    /\ data_pc = "idle"
    /\ include_hydrogen = FALSE
    /\ raw = NoData
    /\ data = NoData
    /\ perm = <<>>
    /\ batch = NoBatch

\* lines 35-36: the transform is in the list only without hydrogen.
DropQM9Hydrogen ==
    /\ data_pc = "raw"
    /\ IF include_hydrogen
       THEN data' = data
       ELSE data' = DropQM9HydrogenForward(data)
    /\ data_pc' = "dropped"
    /\ UNCHANGED <<include_hydrogen, raw, perm, batch>>
    /\ UNCHANGED <<evalVars, trainVars, mainVars, selectVars>>

AddAdjacencyMatrix ==
    /\ data_pc = "dropped"
    /\ data' = AddAdjacencyMatrixForward(data)
    /\ data_pc' = "adj"
    /\ UNCHANGED <<include_hydrogen, raw, perm, batch>>
    /\ UNCHANGED <<evalVars, trainVars, mainVars, selectVars>>

AddNodeAttributeMatrix ==
    /\ data_pc = "adj"
    /\ data' = AddNodeAttributeMatrixForward(data)
    /\ data_pc' = "node"
    /\ UNCHANGED <<include_hydrogen, raw, perm, batch>>
    /\ UNCHANGED <<evalVars, trainVars, mainVars, selectVars>>

AddEdgeAttributeMatrix ==
    /\ data_pc = "node"
    /\ data' = AddEdgeAttributeMatrixForward(data)
    /\ data_pc' = "cached"
    /\ UNCHANGED <<include_hydrogen, raw, perm, batch>>
    /\ UNCHANGED <<evalVars, trainVars, mainVars, selectVars>>

\* lines 47-51: the transform of every access to the cached sample.
RandomPermutation ==
    /\ data_pc = "cached"
    /\ \E p \in AllPermutations :
          /\ perm' = p
          /\ batch' = RandomPermutationForward(data, p)
    /\ data_pc' = "batch"
    /\ UNCHANGED <<include_hydrogen, raw, data>>
    /\ UNCHANGED <<evalVars, trainVars, mainVars, selectVars>>

(***************************************************************************)
(* train_graph_vae.py: train_model                                         *)
(***************************************************************************)
\* lines 118-119
validation_interval == 100
batches_per_validation == 2

KlSchedules == {"constant", "cyclical", "monotonic"}

\* ---- the schedule, lines 121-136 and 88-96 ----
\* The schedules return 0.5 * (1 + cos((1 + x) * pi)) for a ramp position x
\* in [0, 1]; kl_weight holds x as <<numerator, denominator>>.  The constant
\* schedule returns 1, the value of the ramp at x = 1.
total_iteration_count == len_train_loader * epochs
\* math.ceil(total_iteration_count / num_cycles), num_cycles = 4
cycle_length == (total_iteration_count + 3) \div 4
\* line 89
\* (Faulty variant: the ramp takes the whole cycle.)
cosine_length_WholeCycle == cycle_length
cosine_length == cycle_length \div 2
\* int(total_iteration_count * 0.25), int(total_iteration_count * 0.75)
start_iteration == total_iteration_count \div 4
end_iteration == (3 * total_iteration_count) \div 4

\* min(x, 1) of a quotient num / den, den > 0 and num >= 0
ClampToOne(num, den) == IF num >= den THEN <<1, 1>> ELSE <<num, den>>

\* The divisions of lines 90 and 95 raise ZeroDivisionError on a zero divisor.
kl_schedule_raises ==
    \/ kl_schedule = "cyclical" /\ cosine_length = 0
    \/ kl_schedule = "monotonic" /\ end_iteration - start_iteration = 0

kl_schedule_func(t) ==
    CASE kl_schedule = "constant" -> <<1, 1>>
      [] kl_schedule = "cyclical" -> ClampToOne(t % cycle_length, cosine_length)
      [] kl_schedule = "monotonic" ->
            ClampToOne(IF t - start_iteration > 0 THEN t - start_iteration ELSE 0,
                       end_iteration - start_iteration)

NoWeight == <<0, 0>>
\* The record of lines 215-220.  Of hparams it keeps the entry train_model
\* reads for its control flow.
NoCheckpoint == [epoch |-> -1, model_state_dict |-> -1,
                 optimizer_state_dict |-> -1,
                 hparams |-> [kl_schedule |-> "unset"]]

\* line 174
\* (Faulty variant: the condition on iteration in place of iteration + 1.)
ValidationDue_OnMultiples(t) == t % validation_interval = 0 \/ t = 0
ValidationDue(t) == (t + 1) % validation_interval = 0 \/ t = 0

\* line 213: graph_vae_model.train() ends the validation pass.
\* (Faulty variant: the call is missing.)
TrainingAfterValidation_StaysEval == FALSE
TrainingAfterValidation == TRUE

TrainInit ==
    /\ train_pc = "epoch"
    /\ kl_schedule \in KlSchedules
    /\ len_train_loader \in 1..MaxTrainBatches
    /\ len_val_loader \in 1..MaxValBatches
    /\ epochs \in 1..MaxEpochs
    /\ start_epoch \in 0..MaxStartEpoch
    /\ epoch = start_epoch
    /\ batch_index = 0
    /\ iteration = -1
    /\ kl_weight = NoWeight
    /\ training = TRUE
    /\ grad_enabled = TRUE
    /\ model_version = 0
    /\ optimizer_steps = 0
    /\ mu_sigma = "unset"
    /\ val_loader_position = 0
    /\ val_batches_done = 0
    /\ checkpoint = NoCheckpoint
    /\ kl_divergence_from = "unset"
    /\ validation_log = <<>>
    /\ saves = 0

TrainIdle ==
    /\ train_pc = "idle"
    /\ kl_schedule = "constant"
    /\ len_train_loader = 1
    /\ len_val_loader = 1
    /\ epochs = 1
    /\ start_epoch = 0
    /\ epoch = 0
    /\ batch_index = 0
    /\ iteration = -1
    /\ kl_weight = NoWeight
    /\ training = TRUE
    /\ grad_enabled = TRUE
    /\ model_version = 0
    /\ optimizer_steps = 0
    /\ mu_sigma = "unset"
    /\ val_loader_position = 0
    /\ val_batches_done = 0
    /\ checkpoint = NoCheckpoint
    /\ kl_divergence_from = "unset"
    /\ validation_log = <<>>
    /\ saves = 0

\* lines 138-139: the next epoch of range(start_epoch, start_epoch + epochs)
\* begins with graph_vae_model.train().
StartEpoch ==
    /\ train_pc = "epoch"
    /\ epoch < start_epoch + epochs
    /\ training' = TRUE
    /\ batch_index' = 0
    /\ train_pc' = "batch"
    /\ UNCHANGED saves
    /\ UNCHANGED <<kl_schedule, len_train_loader, len_val_loader, epochs,
                   start_epoch, epoch, iteration, kl_weight, grad_enabled,
                   model_version, optimizer_steps, mu_sigma,
                   val_loader_position, val_batches_done, checkpoint,
                   kl_divergence_from, validation_log>>
    /\ UNCHANGED <<evalVars, dataVars, mainVars, selectVars>>

\* lines 142-178: one training iteration, up to the decision of line 174 and,
\* when a validation pass is due, its first lines (model.eval(), the sums,
\* entering torch.no_grad()).
TrainStep ==
    /\ train_pc = "batch"
    /\ batch_index < len_train_loader
    /\ iteration' = len_train_loader * epoch + batch_index
    /\ IF kl_schedule_raises
       THEN /\ train_pc' = "ZeroDivisionError"
            /\ UNCHANGED <<batch_index, kl_weight, training, grad_enabled,
                           model_version, optimizer_steps, mu_sigma,
                           val_batches_done, kl_divergence_from, validation_log>>
       ELSE /\ kl_weight' = kl_schedule_func(iteration')
            /\ mu_sigma' = "train"
            /\ kl_divergence_from' = mu_sigma'
            /\ model_version' = model_version + 1
            /\ optimizer_steps' = optimizer_steps + 1
            /\ IF ValidationDue(iteration')
               THEN /\ training' = FALSE
                    /\ grad_enabled' = FALSE
                    /\ val_batches_done' = 0
                    /\ validation_log' = Append(validation_log,
                          [iteration |-> iteration', batches |-> 0,
                           first_step |-> optimizer_steps',
                           last_step |-> optimizer_steps'])
                    /\ train_pc' = "validate"
                    /\ batch_index' = batch_index
               ELSE /\ batch_index' = batch_index + 1
                    /\ train_pc' = "batch"
                    /\ UNCHANGED <<training, grad_enabled, val_batches_done,
                                   validation_log>>
    /\ UNCHANGED saves
    /\ UNCHANGED <<kl_schedule, len_train_loader, len_val_loader, epochs,
                   start_epoch, epoch, val_loader_position, checkpoint>>
    /\ UNCHANGED <<evalVars, dataVars, mainVars, selectVars>>

\* lines 181-201: one held-out batch of the validation pass.
ValidationBatch ==
    /\ train_pc = "validate"
    /\ val_batches_done < batches_per_validation
    /\ val_loader_position' = (val_loader_position + 1) % len_val_loader
    /\ mu_sigma' = "val"
    /\ val_batches_done' = val_batches_done + 1
    /\ validation_log' = [validation_log EXCEPT ![Len(validation_log)] =
          [@ EXCEPT !.batches = @ + 1, !.last_step = optimizer_steps]]
    /\ UNCHANGED saves
    /\ UNCHANGED <<train_pc, kl_schedule, len_train_loader, len_val_loader,
                   epochs, start_epoch, epoch, batch_index, iteration,
                   kl_weight, training, grad_enabled, model_version,
                   optimizer_steps, checkpoint, kl_divergence_from>>
    /\ UNCHANGED <<evalVars, dataVars, mainVars, selectVars>>

\* lines 203-213: the pass's averages are logged and the model is put back
\* into training mode; the for loop of line 141 goes on.
ValidationEnd ==
    /\ train_pc = "validate"
    /\ val_batches_done = batches_per_validation
    /\ grad_enabled' = TRUE
    /\ training' = TrainingAfterValidation
    /\ validation_log' = [validation_log EXCEPT ![Len(validation_log)] =
          [@ EXCEPT !.last_step = optimizer_steps]]
    /\ batch_index' = batch_index + 1
    /\ train_pc' = "batch"
    /\ UNCHANGED saves
    /\ UNCHANGED <<kl_schedule, len_train_loader, len_val_loader, epochs,
                   start_epoch, epoch, iteration, kl_weight, model_version,
                   optimizer_steps, mu_sigma, val_loader_position,
                   val_batches_done, checkpoint, kl_divergence_from>>
    /\ UNCHANGED <<evalVars, dataVars, mainVars, selectVars>>

\* lines 215-222: train_loader is exhausted; the epoch's checkpoint is saved.
SaveCheckpoint ==
    /\ train_pc = "batch"
    /\ batch_index = len_train_loader
    /\ checkpoint' = [epoch |-> epoch, model_state_dict |-> model_version,
                      optimizer_state_dict |-> optimizer_steps,
                      hparams |-> [kl_schedule |-> kl_schedule]]
    /\ saves' = saves + 1
    /\ epoch' = epoch + 1
    /\ train_pc' = "epoch"
    /\ UNCHANGED <<kl_schedule, len_train_loader, len_val_loader, epochs,
                   start_epoch, batch_index, iteration, kl_weight, training,
                   grad_enabled, model_version, optimizer_steps, mu_sigma,
                   val_loader_position, val_batches_done, kl_divergence_from,
                   validation_log>>
    /\ UNCHANGED <<evalVars, dataVars, mainVars, selectVars>>

\* line 224: range(start_epoch, start_epoch + epochs) is exhausted.
ReturnCheckpointPath ==
    /\ train_pc = "epoch"
    /\ epoch = start_epoch + epochs
    /\ train_pc' = "done"
    /\ UNCHANGED saves
    /\ UNCHANGED <<kl_schedule, len_train_loader, len_val_loader, epochs,
                   start_epoch, epoch, batch_index, iteration, kl_weight,
                   training, grad_enabled, model_version, optimizer_steps,
                   mu_sigma, val_loader_position, val_batches_done, checkpoint,
                   kl_divergence_from, validation_log>>
    /\ UNCHANGED <<evalVars, dataVars, mainVars, selectVars>>

(***************************************************************************)
(* data_utils.py: SelectQM9TargetProperties                                *)
(***************************************************************************)
\* lines 23-27: the canonical table
property_names ==
    <<"mu", "alpha", "homo", "lumo", "gap", "r2", "zpve", "U0", "U", "H",
      "G", "Cv", "U0_atom", "U_atom", "H_atom", "G_atom", "A", "B", "C">>

KnownNames == {property_names[k] : k \in 1..Len(property_names)}

\* lines 28-30: {name: index for index, name in enumerate(property_names)}
property_name_to_index ==
    [name \in KnownNames |->
        CHOOSE index \in 0..(Len(property_names) - 1) :
            property_names[index + 1] = name]

\* The names a request is made of: the table's names and a name the table
\* does not have.
RequestableNames == KnownNames \cup {"zpe"}
Requests == UNION {[1..n -> RequestableNames] : n \in 0..MaxProperties}

\* The target rows of the raw records drawn: one with 19 different values,
\* one with repeated values.
TargetRecords ==
    {[k \in 1..Len(property_names) |-> 10 * k],
     [k \in 1..Len(property_names) |-> (7 * k) % 5]}

\* line 31: a name missing from the dict raises KeyError.
SelectRaises(names) == \E j \in 1..Len(names) : names[j] \notin KnownNames

\* line 31: [property_name_to_index[name] for name in properties]
\* (Faulty variant: the indices in the table's order.)
SelectIndices_CanonicalOrder(names) ==
    SortedSeq({property_name_to_index[names[j]] : j \in 1..Len(names)})
SelectIndices(names) ==
    [j \in 1..Len(names) |-> property_name_to_index[names[j]]]

\* line 37: data.y[:, self.indices] of the one-row target matrix
SelectForward(row, idx) == [j \in 1..Len(idx) |-> row[idx[j] + 1]]

SelectInit ==
    /\ select_pc = "new"
    /\ properties \in Requests
    /\ indices = <<>>
    /\ y_raw \in TargetRecords
    /\ y = y_raw
    /\ y_refreshed = <<>>

SelectIdle ==
    /\ select_pc = "idle"
    /\ properties = <<>>
    /\ indices = <<>>
    /\ y_raw = <<>>
    /\ y = <<>>
    /\ y_refreshed = <<>>

\* lines 22-31: SelectQM9TargetProperties.__init__
SelectConstruct ==
    /\ select_pc = "new"
    /\ IF SelectRaises(properties)
       THEN /\ select_pc' = "KeyError"
            /\ UNCHANGED indices
       ELSE /\ select_pc' = "built"
            /\ indices' = SelectIndices(properties)
    /\ UNCHANGED <<properties, y_raw, y, y_refreshed>>
    /\ UNCHANGED <<evalVars, dataVars, trainVars, mainVars>>

\* lines 33-38: the pre_transform narrows the record's target row.
SelectQM9TargetProperties ==
    /\ select_pc = "built"
    /\ y' = SelectForward(y, indices)
    /\ select_pc' = "selected"
    /\ UNCHANGED <<properties, indices, y_raw, y_refreshed>>
    /\ UNCHANGED <<evalVars, dataVars, trainVars, mainVars>>

\* train_graph_vae.py lines 56-60: with refresh_data_cache the processed
\* files are removed and the dataset is built again, the same pre_transform
\* applied to the raw record.
RefreshDataCache ==
    /\ select_pc = "selected"
    /\ y_refreshed' = SelectForward(y_raw, indices)
    /\ select_pc' = "refreshed"
    /\ UNCHANGED <<properties, indices, y_raw, y>>
    /\ UNCHANGED <<evalVars, dataVars, trainVars, mainVars>>

(***************************************************************************)
(* train_graph_vae.py: main                                                *)
(***************************************************************************)
\* line 448: start_epoch = checkpoint['epoch'] + 1
\* (Faulty variant: the checkpointed epoch is run again.)
ResumeEpoch_SameEpoch(c) == c.epoch
ResumeEpoch(c) == c.epoch + 1

\* What a process that has not called train_model holds in its locals.
TrainLocalsIdle ==
    /\ train_pc = "idle"
    /\ epochs = 1
    /\ start_epoch = 0
    /\ epoch = 0
    /\ batch_index = 0
    /\ iteration = -1
    /\ kl_weight = NoWeight
    /\ training = TRUE
    /\ grad_enabled = TRUE
    /\ model_version = 0
    /\ optimizer_steps = 0
    /\ mu_sigma = "unset"
    /\ val_loader_position = 0
    /\ val_batches_done = 0
    /\ kl_divergence_from = "unset"
    /\ validation_log = <<>>
    /\ saves = 0

\* lines 366-392: the first run of main in a working directory that holds no
\* checkpoint yet.  kl_schedule is args.kl_schedule, which line 426 copies
\* into hparams.
MainInit ==
    /\ main_pc = "parsed"
    /\ args_epochs \in 0..MaxMainEpochs
    /\ args_checkpoint = "None"
    /\ data_loaders = FALSE
    /\ graph_vae_model = FALSE
    /\ optimizer = FALSE
    /\ tb_writer = FALSE
    /\ out_checkpoint_path = "unset"
    /\ runs = 1
    /\ kl_schedule \in KlSchedules
    /\ len_train_loader \in 1..MaxMainBatches
    /\ len_val_loader \in 1..MaxValBatches
    /\ checkpoint = NoCheckpoint
    /\ TrainLocalsIdle

MainIdle ==
    /\ main_pc = "idle"
    /\ args_epochs = 0
    /\ args_checkpoint = "None"
    /\ data_loaders = FALSE
    /\ graph_vae_model = FALSE
    /\ optimizer = FALSE
    /\ tb_writer = FALSE
    /\ out_checkpoint_path = "unset"
    /\ runs = 0

\* lines 394-410: the dataset, its split and the loaders.
CreateDataset ==
    /\ main_pc = "parsed"
    /\ data_loaders' = TRUE
    /\ main_pc' = "dataset"
    /\ UNCHANGED <<args_epochs, args_checkpoint, graph_vae_model, optimizer,
                   tb_writer, out_checkpoint_path, runs>>
    /\ UNCHANGED <<evalVars, dataVars, trainVars, selectVars>>

\* lines 415-440: hparams, a freshly initialised model and its optimizer.
CreateModel ==
    /\ main_pc = "dataset"
    /\ graph_vae_model' = TRUE
    /\ optimizer' = TRUE
    /\ model_version' = 0
    /\ optimizer_steps' = 0
    /\ main_pc' = "model"
    /\ UNCHANGED <<args_epochs, args_checkpoint, data_loaders, tb_writer,
                   out_checkpoint_path, runs>>
    /\ UNCHANGED <<train_pc, kl_schedule, len_train_loader, len_val_loader,
                   epochs, start_epoch, epoch, batch_index, iteration,
                   kl_weight, training, grad_enabled, mu_sigma,
                   val_loader_position, val_batches_done, checkpoint,
                   kl_divergence_from, validation_log, saves>>
    /\ UNCHANGED <<evalVars, dataVars, selectVars>>

\* lines 442-453: with --checkpoint, the model, the optimizer state and
\* hparams are the checkpoint's and training resumes after its epoch.
LoadCheckpoint ==
    /\ main_pc = "model"
    /\ IF args_checkpoint # "None"
       THEN /\ model_version' = checkpoint.model_state_dict
            /\ optimizer_steps' = checkpoint.optimizer_state_dict
            /\ kl_schedule' = checkpoint.hparams.kl_schedule
            /\ start_epoch' = ResumeEpoch(checkpoint)
       ELSE /\ start_epoch' = 0
            /\ UNCHANGED <<model_version, optimizer_steps, kl_schedule>>
    /\ main_pc' = "loaded"
    /\ UNCHANGED <<args_epochs, args_checkpoint, data_loaders,
                   graph_vae_model, optimizer, tb_writer,
                   out_checkpoint_path, runs>>
    /\ UNCHANGED <<train_pc, len_train_loader, len_val_loader, epochs, epoch,
                   batch_index, iteration, kl_weight, training, grad_enabled,
                   mu_sigma, val_loader_position, val_batches_done,
                   checkpoint, kl_divergence_from, validation_log, saves>>
    /\ UNCHANGED <<evalVars, dataVars, selectVars>>

\* lines 455-456: create_tensorboard_writer makes the log directory.
CreateWriter ==
    /\ main_pc = "loaded"
    /\ tb_writer' = TRUE
    /\ main_pc' = "writer"
    /\ UNCHANGED <<args_epochs, args_checkpoint, data_loaders,
                   graph_vae_model, optimizer, out_checkpoint_path, runs>>
    /\ UNCHANGED <<evalVars, dataVars, trainVars, selectVars>>

\* lines 458-469 and 108-136: train_model is called with epochs=args.epochs
\* and start_epoch; its loop starts at range(start_epoch, ...).
CallTrainModel ==
    /\ main_pc = "writer"
    /\ args_epochs > 0
    /\ main_pc' = "train_model"
    /\ train_pc' = "epoch"
    /\ epochs' = args_epochs
    /\ epoch' = start_epoch
    /\ UNCHANGED <<args_epochs, args_checkpoint, data_loaders,
                   graph_vae_model, optimizer, tb_writer,
                   out_checkpoint_path, runs>>
    /\ UNCHANGED <<kl_schedule, len_train_loader, len_val_loader, start_epoch,
                   batch_index, iteration, kl_weight, training, grad_enabled,
                   model_version, optimizer_steps, mu_sigma,
                   val_loader_position, val_batches_done, checkpoint,
                   kl_divergence_from, validation_log, saves>>
    /\ UNCHANGED <<evalVars, dataVars, selectVars>>

\* lines 470-471 and 478: no training; the given checkpoint is evaluated.
UseCheckpoint ==
    /\ main_pc = "writer"
    /\ ~(args_epochs > 0)
    /\ args_checkpoint # "None"
    /\ out_checkpoint_path' = "args.checkpoint"
    /\ main_pc' = "evaluate_model"
    /\ UNCHANGED <<args_epochs, args_checkpoint, data_loaders,
                   graph_vae_model, optimizer, tb_writer, runs>>
    /\ UNCHANGED <<evalVars, dataVars, trainVars, selectVars>>

\* lines 472-475: raise ValueError("Missing trainng checkpoint!")
MissingCheckpoint ==
    /\ main_pc = "writer"
    /\ ~(args_epochs > 0)
    /\ args_checkpoint = "None"
    /\ main_pc' = "ValueError"
    /\ UNCHANGED <<args_epochs, args_checkpoint, data_loaders,
                   graph_vae_model, optimizer, tb_writer,
                   out_checkpoint_path, runs>>
    /\ UNCHANGED <<evalVars, dataVars, trainVars, selectVars>>

\* lines 460 and 477-486: train_model has returned the path of its
\* checkpoint and evaluate_model is called (SpecEval is its model).
TrainModelReturns ==
    /\ main_pc = "train_model"
    /\ train_pc = "done"
    /\ out_checkpoint_path' = "train_model"
    /\ main_pc' = "evaluate_model"
    /\ UNCHANGED <<args_epochs, args_checkpoint, data_loaders,
                   graph_vae_model, optimizer, tb_writer, runs>>
    /\ UNCHANGED <<evalVars, dataVars, trainVars, selectVars>>

MainOver ==
    \/ main_pc \in {"evaluate_model", "ValueError"}
    \/ main_pc = "train_model" /\ train_pc = "ZeroDivisionError"

\* lines 489-490 and 366-392: the process is over and main is started again
\* on the same dataset and batch size, with or without the checkpoint the
\* last training left on disk.  Nothing of the old process is kept but the
\* checkpoint file.
MainAgain ==
    /\ MainOver
    /\ runs < MaxRuns
    /\ runs' = runs + 1
    /\ main_pc' = "parsed"
    /\ args_epochs' \in 0..MaxMainEpochs
    /\ args_checkpoint' \in
          IF checkpoint = NoCheckpoint THEN {"None"} ELSE {"None", "last"}
    /\ kl_schedule' \in KlSchedules
    /\ data_loaders' = FALSE
    /\ graph_vae_model' = FALSE
    /\ optimizer' = FALSE
    /\ tb_writer' = FALSE
    /\ out_checkpoint_path' = "unset"
    /\ train_pc' = "idle"
    /\ epochs' = 1
    /\ start_epoch' = 0
    /\ epoch' = 0
    /\ batch_index' = 0
    /\ iteration' = -1
    /\ kl_weight' = NoWeight
    /\ training' = TRUE
    /\ grad_enabled' = TRUE
    /\ model_version' = 0
    /\ optimizer_steps' = 0
    /\ mu_sigma' = "unset"
    /\ val_loader_position' = 0
    /\ val_batches_done' = 0
    /\ kl_divergence_from' = "unset"
    /\ validation_log' = <<>>
    /\ saves' = 0
    /\ UNCHANGED <<len_train_loader, len_val_loader, checkpoint>>
    /\ UNCHANGED <<evalVars, dataVars, selectVars>>

(***************************************************************************)
(* The specifications                                                      *)
(***************************************************************************)
NextEval ==
    \/ \E c \in Candidates : DecodeAttempt(c)
    \/ AttemptsExhausted
    \/ ComputeMetrics

InitEval == EvalInit /\ DataIdle /\ TrainIdle /\ MainIdle /\ SelectIdle

SpecEval == InitEval /\ [][NextEval]_vars

NextData ==
    \/ DropQM9Hydrogen
    \/ AddAdjacencyMatrix
    \/ AddNodeAttributeMatrix
    \/ AddEdgeAttributeMatrix
    \/ RandomPermutation

InitData == EvalIdle /\ DataInit /\ TrainIdle /\ MainIdle /\ SelectIdle

SpecData == InitData /\ [][NextData]_vars

NextTrain ==
    \/ StartEpoch
    \/ TrainStep
    \/ ValidationBatch
    \/ ValidationEnd
    \/ SaveCheckpoint
    \/ ReturnCheckpointPath

InitTrain == EvalIdle /\ DataIdle /\ TrainInit /\ MainIdle /\ SelectIdle

SpecTrain == InitTrain /\ [][NextTrain]_vars

NextMain ==
    \/ CreateDataset
    \/ CreateModel
    \/ LoadCheckpoint
    \/ CreateWriter
    \/ CallTrainModel
    \/ UseCheckpoint
    \/ MissingCheckpoint
    \/ TrainModelReturns
    \/ MainAgain
    \/ StartEpoch
    \/ TrainStep
    \/ ValidationBatch
    \/ ValidationEnd
    \/ SaveCheckpoint
    \/ ReturnCheckpointPath

InitMain == EvalIdle /\ DataIdle /\ MainInit /\ SelectIdle

SpecMain == InitMain /\ [][NextMain]_vars

NextSelect ==
    \/ SelectConstruct
    \/ SelectQM9TargetProperties
    \/ RefreshDataCache

InitSelect == EvalIdle /\ DataIdle /\ TrainIdle /\ MainIdle /\ SelectInit

SpecSelect == InitSelect /\ [][NextSelect]_vars
(***************************************************************************)
(* Claims about evaluate_model (checked under SpecEval)                    *)
(***************************************************************************)
RECURSIVE SumLog(_, _)
\* Sum over samples 0..j-1 of what Field(sample_log entry) gives.
SumLog(Field(_), j) ==
    IF j = 0 THEN 0 ELSE Field(sample_log[j - 1]) + SumLog(Field, j - 1)

AttemptsOf(e) == e.attempts
ValidOf(e) == e.valid

\* The attempt limit as the claim states it.
AttemptLimit == IF stochastic_decoding THEN hp_max_decode_attempts ELSE 1

FinishedSamples == {j \in 0..(num_samples - 1) : j < sample_index}

\* C1: every sample gets min(k, L) decode attempts, k the position of its
\* first connected-and-valid attempt (none: L attempts), L the configured
\* limit under stochastic decoding and 1 under deterministic decoding.  No
\* attempt follows the first connected-and-valid one, and a deterministic
\* run ends with total_decode_attempts = num_samples.
C1_DecodeAttemptCount ==
    /\ \A j \in 0..(num_samples - 1) :
          /\ sample_log[j].first_ok # 0
                => sample_log[j].attempts = sample_log[j].first_ok
          /\ j \in FinishedSamples
                => sample_log[j].attempts =
                      IF sample_log[j].first_ok # 0
                      THEN Min(sample_log[j].first_ok, AttemptLimit)
                      ELSE AttemptLimit
    /\ total_decode_attempts = SumLog(AttemptsOf, num_samples)
    /\ (~stochastic_decoding /\ sample_index = num_samples)
          => total_decode_attempts = num_samples

\* A stochastic run with limit 2 in which one finished sample stopped at
\* its first attempt and another used both attempts without success.
C1_Witness ==
    /\ stochastic_decoding
    /\ hp_max_decode_attempts = 2
    /\ \E j, k \in FinishedSamples :
          /\ sample_log[j].first_ok = 1 /\ sample_log[j].attempts = 1
          /\ sample_log[k].first_ok = 0 /\ sample_log[k].attempts = 2

\* C2: a sample none of whose attempts is connected and valid is no fatal
\* error: it adds exactly the attempt limit to total_decode_attempts, 0 to
\* num_valid_mols and nothing to generated_mol_smiles, and the loop goes on;
\* only connected candidates are validated, so after every attempt
\* num_valid_mols <= num_connected_graphs <= total_decode_attempts.
C2_ExhaustedRetries ==
    /\ \A j \in FinishedSamples :
          sample_log[j].first_ok = 0
             => /\ sample_log[j].attempts = AttemptLimit
                /\ sample_log[j].valid = 0
                /\ sample_log[j].added = {}
    /\ total_decode_attempts = SumLog(AttemptsOf, num_samples)
    /\ num_valid_mols = SumLog(ValidOf, num_samples)
    /\ generated_mol_smiles = UNION {sample_log[j].added : j \in 0..(num_samples - 1)}
    /\ num_valid_mols <= num_connected_graphs
    /\ num_connected_graphs <= total_decode_attempts
    /\ sample_index < num_samples => eval_pc = "generate"

\* A sample that used up both attempts, one of them on a connected graph
\* that did not sanitize, is followed by a sample that decoded to a valid
\* molecule.
C2_Witness ==
    /\ hp_max_decode_attempts = 2
    /\ \E j, k \in FinishedSamples :
          /\ j < k
          /\ sample_log[j].first_ok = 0 /\ sample_log[j].attempts = 2
          /\ sample_log[k].valid = 1
    /\ num_connected_graphs = 2

\* A rate <<numerator, denominator>> that is a number in [0, 1].
InUnitInterval(r) == r[2] > 0 /\ 0 <= r[1] /\ r[1] <= r[2]

\* C3: once the generation loop has ended, Connectedness, Validity,
\* Uniqueness and Novelty are each a number in [0, 1], whatever the
\* attempts' outcomes and the training SMILES set were.
C3_MetricBounds ==
    eval_pc # "generate"
       => /\ tb_hparams # {}
          /\ \A m \in tb_hparams :
                /\ InUnitInterval(m.Connectedness)
                /\ InUnitInterval(m.Validity)
                /\ InUnitInterval(m.Uniqueness)
                /\ InUnitInterval(m.Novelty)

\* C4: when the loop ends with num_valid_mols = 0, evaluation completes and
\* logs its metrics, Uniqueness among them as undefined (a rate with no
\* value), and does not fail with a division by zero.
C4_UniquenessUndefined ==
    (eval_pc # "generate" /\ num_valid_mols = 0)
       => /\ eval_pc = "done"
          /\ \E m \in tb_hparams : m.Uniqueness[2] = 0

(***************************************************************************)
(* Claims about the dataset transforms (checked under SpecData)            *)
(***************************************************************************)
\* The position of entry (i, j), i <= j, in the row-major inclusive upper
\* triangle of an n x n matrix, n = max_num_nodes.
InclusiveTriuPos(i, j) ==
    i * max_num_nodes - ((i * (i - 1)) \div 2) + (j - i) + 1

AdjDiagonal(d, i) == d.adj_triu_mat[InclusiveTriuPos(i, i)]

AdjacencyBuilt == data_pc \in {"adj", "node", "cached", "batch"}
Encoded == data_pc \in {"cached", "batch"}

HydrogenNodes == {i \in 0..(Len(raw.x) - 1) : raw.x[i + 1][1] = 1}
HydrogenDropped == data_pc # "raw" /\ ~include_hydrogen
SurvivingEntries ==
    {e \in 1..Len(raw.edge_index) :
        raw.edge_index[e][1] \notin HydrogenNodes
            /\ raw.edge_index[e][2] \notin HydrogenNodes}
IncidentEntries ==
    {e \in 1..Len(raw.edge_index) :
        raw.edge_index[e][1] \in HydrogenNodes
            \/ raw.edge_index[e][2] \in HydrogenNodes}
\* The r-th surviving entry of the original edge list.
SurvivingEntry(r) ==
    CHOOSE e \in SurvivingEntries :
        Cardinality({f \in SurvivingEntries : f <= e}) = r

\* C6: DropQM9Hydrogen leaves N - k nodes of a graph with N nodes, k of them
\* hydrogen; an edge entry survives iff both its endpoints are not hydrogen,
\* so the edge count falls by the number of entries incident to a hydrogen;
\* row r of edge_attr is the attribute of the entry column r of edge_index
\* came from, and that column's endpoints are the atoms that entry joined.
C6_HydrogenDropConsistency ==
    HydrogenDropped =>
        /\ Len(data.x) = Len(raw.x) - Cardinality(HydrogenNodes)
        /\ Len(data.edge_index) = Cardinality(SurvivingEntries)
        /\ Len(data.edge_index) = Len(raw.edge_index) - Cardinality(IncidentEntries)
        /\ Len(data.edge_attr) = Len(data.edge_index)
        /\ \A r \in 1..Len(data.edge_index) :
              /\ data.edge_attr[r] = raw.edge_attr[SurvivingEntry(r)]
              /\ \A side \in 1..2 :
                    /\ data.edge_index[r][side] \in 0..(Len(data.x) - 1)
                    /\ data.x[data.edge_index[r][side] + 1]
                          = Tail(raw.x[raw.edge_index[SurvivingEntry(r)][side] + 1])

\* Node 0 is a hydrogen and was dropped with its bond, the bond between the
\* other two atoms survived and was renumbered.
C6_Witness ==
    /\ data_pc = "dropped"
    /\ ~include_hydrogen
    /\ HydrogenNodes = {0}
    /\ Len(raw.edge_index) = 4
    /\ data.edge_index = <<(<<0, 1>>), (<<1, 0>>)>>
    /\ data.edge_attr[1] = OneHot(1, NumEdgeFeatures)

IdentityPermutation == [i \in Slots |-> i]
InversePermutation(p) == [i \in Slots |-> CHOOSE j \in Slots : p[j] = i]
PackedTensors(d) ==
    [adj_triu_mat |-> d.adj_triu_mat, node_mat |-> d.node_mat,
     edge_triu_mat |-> d.edge_triu_mat]

\* C7: RandomPermutation yields adj'[i,j] = adj[perm[i],perm[j]],
\* edge'[i,j] = edge[perm[i],perm[j]] and node_mat'[i] = node_mat[perm[i]]
\* on the matrices rebuilt from the packed form; with the identity it
\* returns the packed tensors unchanged, and applying the inverse
\* permutation to its result gives the original packed tensors back.
C7_PermutationRoundTrip ==
    data_pc = "batch" =>
        /\ \A i, j \in Slots :
              /\ UnpackAdjMat(batch.adj_triu_mat)[i][j]
                    = UnpackAdjMat(data.adj_triu_mat)[perm[i]][perm[j]]
              /\ UnpackEdgeMat(batch.edge_triu_mat)[i][j]
                    = UnpackEdgeMat(data.edge_triu_mat)[perm[i]][perm[j]]
        /\ \A i \in Slots : batch.node_mat[i + 1] = data.node_mat[perm[i] + 1]
        /\ perm = IdentityPermutation => batch = PackedTensors(data)
        /\ RandomPermutationForward(batch, InversePermutation(perm))
              = PackedTensors(data)

\* A permutation that is not its own inverse has changed all three packed
\* tensors of a sample.
C7_Witness ==
    /\ data_pc = "batch"
    /\ perm[0] = 1 /\ perm[1] = 2 /\ perm[2] = 0
    /\ batch.adj_triu_mat # data.adj_triu_mat
    /\ batch.node_mat # data.node_mat
    /\ batch.edge_triu_mat # data.edge_triu_mat

\* C8: the packed adjacency has n(n+1)/2 entries and the packed edge
\* features n(n-1)/2 rows, n = max_num_nodes, whatever the node count;
\* scattering them into zeros, adding the transpose and halving the
\* adjacency diagonal gives back the dense adjacency matrix (self-loops
\* counted once) and the dense edge-feature tensor they were packed from.
C8_PackingRoundTrip ==
    Encoded =>
        /\ 2 * Len(data.adj_triu_mat) = max_num_nodes * (max_num_nodes + 1)
        /\ 2 * Len(data.edge_triu_mat) = max_num_nodes * (max_num_nodes - 1)
        /\ Len(data.node_mat) = max_num_nodes
        /\ UnpackAdjMat(data.adj_triu_mat)
              = to_dense_adj(add_self_loops(data.edge_index))
        /\ UnpackEdgeMat(data.edge_triu_mat)
              = to_dense_edge_attr(data.edge_index, data.edge_attr)

\* A sample with two bonds, a self-loop and fewer nodes than slots is packed.
C8_Witness ==
    /\ data_pc = "cached"
    /\ Len(data.edge_index) = 4
    /\ Len(data.x) < max_num_nodes \/ include_hydrogen
    /\ AdjDiagonal(data, 0) = 1
    /\ \E k \in 1..Len(data.edge_triu_mat) : data.edge_triu_mat[k] # ZeroVec

(***************************************************************************)
(* Claims about train_model (checked under SpecTrain)                      *)
(***************************************************************************)
\* The iteration indices whose optimizer step has been taken: consecutive
\* from the first index of the run.
first_iteration == len_train_loader * start_epoch
IterationsRun == {first_iteration + k : k \in 0..(optimizer_steps - 1)}

\* C9: a validation pass runs at iteration 0 and once every 100 training
\* iterations, that is at the iterations t whose count t + 1 is a multiple of
\* 100 (99, 199, ...), and at no other iteration; a pass evaluates exactly 2
\* held-out batches; it runs after the optimizer step of its iteration and
\* before the next iteration's.
C9_ValidationSchedule ==
    /\ {validation_log[k].iteration : k \in 1..Len(validation_log)}
          = {t \in IterationsRun : t = 0 \/ (t + 1) % 100 = 0}
    /\ \A k, l \in 1..Len(validation_log) :
          k < l => /\ validation_log[k].iteration < validation_log[l].iteration
                   /\ validation_log[k].iteration > 0
                         => validation_log[l].iteration
                               - validation_log[k].iteration = 100 * (l - k)
    /\ \A k \in 1..Len(validation_log) :
          /\ validation_log[k].batches <= 2
          /\ (k < Len(validation_log) \/ train_pc # "validate")
                => validation_log[k].batches = 2
          /\ validation_log[k].first_step
                = validation_log[k].iteration - first_iteration + 1
          /\ validation_log[k].last_step = validation_log[k].first_step

\* A run from iteration 0 has had its passes at iterations 0, 99 and 199 and
\* has gone on training.
C9_Witness ==
    /\ Len(validation_log) = 3
    /\ validation_log[1].iteration = 0
    /\ validation_log[2].iteration = 99
    /\ validation_log[3].iteration = 199
    /\ train_pc = "batch"

\* C10: a validation pass is read-only for the training state: its steps
\* take no optimizer step and leave the model parameters, the optimizer
\* state, the iteration counter and kl_weight as they are; the model is in
\* evaluation mode (and gradients are off) throughout the pass and in
\* training mode at every training step; a training step computes its loss
\* from the mu, sigma it assigned itself, not from the validation's.
C10_ValidationStep ==
    train_pc = "validate"
       => /\ model_version' = model_version
          /\ optimizer_steps' = optimizer_steps
          /\ iteration' = iteration
          /\ kl_weight' = kl_weight
          /\ checkpoint' = checkpoint
          /\ ~training /\ ~grad_enabled
C10_TrainingStep ==
    optimizer_steps' # optimizer_steps
       => /\ train_pc = "batch"
          /\ training /\ grad_enabled
          /\ kl_divergence_from' = "train"
C10_ValidationReadOnly == [][C10_ValidationStep /\ C10_TrainingStep]_vars

\* A training step has been taken after a completed validation pass.
C10_Witness ==
    /\ Len(validation_log) >= 1
    /\ validation_log[1].batches = 2
    /\ train_pc = "batch"
    /\ mu_sigma = "train"
    /\ optimizer_steps > validation_log[1].last_step

(***************************************************************************)
(* Claims about main (checked under SpecMain)                              *)
(***************************************************************************)
\* C11: a run of main with epochs == 0 and no checkpoint ends in the
\* ValueError, and when it does nothing has been computed: no dataset, no
\* model, no optimizer, no log directory or writer, and neither training nor
\* evaluation has started.
C11_FailsBeforeAnyComputation ==
    /\ (MainOver /\ args_epochs = 0 /\ args_checkpoint = "None") =>
          main_pc = "ValueError"
    /\ main_pc = "ValueError" =>
          /\ ~data_loaders
          /\ ~graph_vae_model
          /\ ~optimizer
          /\ ~tb_writer
          /\ train_pc = "idle"
          /\ eval_pc = "idle"

TrainModelRunning == train_pc \in {"epoch", "batch", "validate", "done"}

\* C12: train_model has saved one checkpoint per completed epoch; the last
\* one records the epoch just completed, the model parameters, the optimizer
\* state and hparams as they were at the end of that epoch.  A run resumed
\* from a checkpoint of epoch e starts at epoch e + 1 with the saved model
\* and optimizer state.  The optimizer state counts the steps taken since
\* the model was initialised, over all the runs of the lineage, so every
\* training step having an iteration index equal to the number of steps
\* taken before it says that the indices go 0, 1, 2, ... across the resumed
\* runs, none repeated and none skipped.
C12_CheckpointAndResume ==
    /\ (main_pc = "train_model" /\ TrainModelRunning) =>
          /\ saves = epoch - start_epoch
          /\ saves > 0 =>
                /\ checkpoint.epoch = epoch - 1
                /\ checkpoint.hparams.kl_schedule = kl_schedule
          /\ (saves > 0 /\ train_pc \in {"epoch", "done"}) =>
                /\ checkpoint.model_state_dict = model_version
                /\ checkpoint.optimizer_state_dict = optimizer_steps
          /\ iteration >= 0 => iteration = optimizer_steps - 1
    /\ (main_pc \in {"loaded", "writer"} /\ args_checkpoint # "None") =>
          /\ start_epoch = checkpoint.epoch + 1
          /\ model_version = checkpoint.model_state_dict
          /\ optimizer_steps = checkpoint.optimizer_state_dict
          /\ len_train_loader * start_epoch = optimizer_steps

\* A run resumed after epochs 0 and 1 of three batches each has run epoch 2
\* as iterations 6, 7, 8 and saved its checkpoint.
C12_Witness ==
    /\ main_pc = "train_model"
    /\ args_checkpoint = "last"
    /\ train_pc = "epoch"
    /\ len_train_loader = 3
    /\ start_epoch = 2
    /\ saves = 1
    /\ checkpoint.epoch = 2
    /\ iteration = 8
    /\ optimizer_steps = 9

\* C18: the iteration index of every training step lies in
\* 0..total_iteration_count - 1, the total the schedule was configured
\* with, in fresh and in resumed runs.
C18_IterationWithinTotal ==
    (main_pc = "train_model" /\ iteration >= 0) =>
        /\ 0 <= iteration
        /\ iteration < total_iteration_count

(***************************************************************************)
(* Claims about the annealing schedules (checked under SpecTrain)          *)
(***************************************************************************)
\* Ramp positions are compared as fractions <<numerator, denominator>> with
\* a positive denominator.  The weight 0.5 * (1 + cos((1 + x) * pi)) grows
\* strictly with the ramp position x on [0, 1]; it is 0 at x = 0, 0.5 at
\* x = 1/2 and 1 at x = 1.
FracEq(a, b) == a[2] > 0 /\ b[2] > 0 /\ a[1] * b[2] = b[1] * a[2]
FracLeq(a, b) == a[2] > 0 /\ b[2] > 0 /\ a[1] * b[2] <= b[1] * a[2]

CyclicalStep ==
    /\ kl_schedule = "cyclical"
    /\ cycle_length >= 2
    /\ iteration >= 0

\* C13 as stated: at iteration t of the cyclical schedule with period
\* P >= 2 the ramp argument is min(1, (t mod P) / (P / 2)), for odd P too.
C13_RampOverHalfPeriod ==
    CyclicalStep =>
        LET r == iteration % cycle_length
        IN FracEq(kl_weight,
                  IF 2 * r >= cycle_length THEN <<1, 1>>
                  ELSE <<2 * r, cycle_length>>)

\* C13 as amended: the ramp argument is min(1, (t mod P) / floor(P / 2));
\* the weight is 0 at t mod P == 0, it is 1 for every t with
\* t mod P >= floor(P / 2), hence for every t with t mod P >= P / 2, and
\* weight(t) == weight(t + P).
C13_RampOverFloorHalfPeriod ==
    CyclicalStep =>
        LET P == cycle_length
            r == iteration % P
            h == CHOOSE k \in 0..P : 2 * k <= P /\ 2 * (k + 1) > P
        IN /\ train_pc # "ZeroDivisionError"
           /\ FracEq(kl_weight, IF r >= h THEN <<1, 1>> ELSE <<r, h>>)
           /\ r = 0 => kl_weight[1] = 0
           /\ 2 * r >= P => FracEq(kl_weight, <<1, 1>>)
           /\ FracEq(kl_weight, kl_schedule_func(iteration + P))
           /\ iteration >= P =>
                 FracEq(kl_weight, kl_schedule_func(iteration - P))

\* An odd period, 5, with a ramp of 2 iterations: one step into a period the
\* ramp is half way.
C13_Witness ==
    /\ kl_schedule = "cyclical"
    /\ cycle_length = 5
    /\ iteration % 5 = 1
    /\ iteration > 5
    /\ kl_weight = <<1, 2>>

\* C14: at every iteration t of the monotonic schedule the weight is 0 if
\* t <= start_iteration and 1 if t >= end_iteration, it is 0.5 at the
\* midpoint of the two, and no earlier iteration has a larger weight.
C14_MonotonicRamp ==
    (kl_schedule = "monotonic" /\ iteration >= 0) =>
        /\ train_pc # "ZeroDivisionError"
        /\ iteration <= start_iteration => FracEq(kl_weight, <<0, 1>>)
        /\ iteration >= end_iteration => FracEq(kl_weight, <<1, 1>>)
        /\ 2 * iteration = start_iteration + end_iteration =>
              FracEq(kl_weight, <<1, 2>>)
        /\ \A t \in 0..iteration : FracLeq(kl_schedule_func(t), kl_weight)

\* C17: whatever the schedule type, the number of epochs and the number of
\* batches per epoch, a training iteration gets a weight in [0, 1] from the
\* schedule and no error is raised.
C17_ScheduleNeverRaises ==
    iteration >= 0 =>
        /\ train_pc # "ZeroDivisionError"
        /\ InUnitInterval(kl_weight)

(***************************************************************************)
(* Claims about the remaining transforms                                   *)
(***************************************************************************)
\* The column of a name in the canonical table, counted from 1.
CanonicalColumn(name) ==
    CHOOSE k \in 1..Len(property_names) : property_names[k] = name

KeptNodes == (0..(Len(raw.x) - 1)) \ HydrogenNodes

\* C16 (SpecData): after DropQM9Hydrogen every surviving endpoint is the
\* number of kept nodes at or before its old index, minus one; the order of
\* the old indices is kept, every new endpoint is below N - k, and the row
\* of the compacted node matrix at the new index is the old node's row
\* without its hydrogen column.
C16_EndpointRemap ==
    HydrogenDropped =>
        LET olds == [r \in 1..Cardinality(SurvivingEntries) |->
                        raw.edge_index[SurvivingEntry(r)]]
        IN /\ Len(data.edge_index) = Len(olds)
           /\ \A r \in 1..Len(olds) : \A side \in 1..2 :
                 LET old == olds[r][side]
                     new == data.edge_index[r][side]
                 IN /\ old \in KeptNodes
                    /\ new = Cardinality({j \in KeptNodes : j <= old}) - 1
                    /\ 0 <= new
                    /\ new < Len(raw.x) - Cardinality(HydrogenNodes)
                    /\ data.x[new + 1] = Tail(raw.x[old + 1])
                    /\ \A s \in 1..Len(olds) : \A other \in 1..2 :
                          olds[s][other] < old
                             => data.edge_index[s][other] < new

\* The hydrogen is node 1, between the two atoms of the bond: endpoint 2
\* became 1.
C16_Witness ==
    /\ data_pc = "dropped"
    /\ ~include_hydrogen
    /\ HydrogenNodes = {1}
    /\ raw.edge_index = <<(<<0, 2>>), (<<2, 0>>)>>
    /\ data.edge_index = <<(<<0, 1>>), (<<1, 0>>)>>
    /\ data.x[1] # data.x[2]

=============================================================================
